---- MODULE Spec2Model ----
(***************************************************************************)
(* VanillaQuery (vanilla-query.ts): the query engine (cache, query states, *)
(* configs, subscribers, interval timers, in-flight fetchQuery calls) and  *)
(* the mutation engine returned by useMutation.                            *)
(*                                                                         *)
(* JavaScript runs handlers to completion: every action below is one       *)
(* synchronous stretch of code between two suspension points (await).      *)
(* Date.now() timestamps (dataUpdatedAt, errorUpdatedAt, CacheEntry        *)
(* timestamp) carry no control flow and are not represented.               *)
(***************************************************************************)
EXTENDS Integers, Sequences, FiniteSets, TLC

\* ------------------------------------------------------------------ bounds
\* Values a producer resolves to are 0..MaxData; 0 is a falsy JS value.
MaxData == 1
\* Values a producer rejects with are 0..MaxErr; 0 is a falsy JS value.
MaxErr == 1
\* Top-level fetchQuery calls that pass the two guards, over a whole run.
MaxFetches == 2
\* Pending setTimeout(..., 0) auto-fetch callbacks per key.
MaxPending == 1
\* Interval timers alive per key (a second one needs a second useQuery).
MaxTimers == 2
\* mutate calls of the mutation instance, over a whole run.
MaxMutations == 2
\* Largest numeric retry option a caller passes.
MaxRetryOption == 2

Keys == {"a", "b"}
\* Subscriber callbacks (function identities); those of ThrowingSubs throw.
Subs == {"s1", "s2"}
ThrowingSubs == {"s2"}

\* ------------------------------------------------------------- JS values
Undefined == -1
Null == -2
Data == 0..MaxData
Errors == 0..MaxErr
\* JS truthiness of the values above: 0, undefined and null are falsy.
Truthy(v) == v > 0

\* retry?: number | boolean
BoolRetry(b) == [isBool |-> TRUE, b |-> b, n |-> 0]
NumRetry(n) == [isBool |-> FALSE, b |-> FALSE, n |-> n]

\* const maxRetries = typeof options.retry === 'boolean' ? (options.retry ? 3 : 0) : options.retry
MaxRetries(retry) == IF retry.isBool THEN (IF retry.b THEN 3 ELSE 0) ELSE retry.n

\* defaultOptions of useQuery / prefetchQuery, reduced to the options the
\* engine reads: enabled, retry, the three callbacks, refetchInterval.
\* A callback option is "none" (not configured), "ok" (configured) or
\* "throws" (configured, and it throws when it is run).
DefaultOptions ==
    [enabled |-> TRUE, retry |-> NumRetry(3), onSuccess |-> "none",
     onError |-> "none", onSettled |-> "none", refetchInterval |-> FALSE]

\* ---------------------------------------------------------------- state
VARIABLES
    cache,          \* Map key -> data of the CacheEntry
    queryStates,    \* Map key -> QueryState
    queryConfigs,   \* Map key -> options of the QueryConfig
    subscribers,    \* Map key -> Set of callbacks
    intervals,      \* Map key -> interval id: the keys that have one
    activeTimers,   \* per key, setInterval timers created and not cleared
    pendingAuto,    \* per key, setTimeout(0) auto-fetch callbacks not yet run
    fetches,        \* in-flight fetchQuery calls, by call number
    nextId,         \* number of the next fetchQuery call
    lastOp,         \* what the last handler did: its outputs
    mutationState,  \* the MutationState of one useMutation instance
    mutations,      \* in-flight mutate calls, by call number
    nextMut,        \* number of the next mutate call
    mutOptions,     \* finalOptions of the useMutation instance
    mutSubs         \* the subscribers Set of the useMutation instance

qvars == <<cache, queryStates, queryConfigs, subscribers, intervals,
           activeTimers, pendingAuto, fetches, nextId>>
mvars == <<mutationState, mutations, nextMut, mutOptions, mutSubs>>
vars == <<qvars, mvars, lastOp>>

\* Map helpers: a Map is a function on the set of keys it has.
MapSet(m, k, v) == (k :> v) @@ m
MapDelete(m, k) == [x \in (DOMAIN m) \ {k} |-> m[x]]
EmptyMap == [x \in {} |-> 0]

\* QueryState objects
QState(data, error, status, isLoading, isError, isSuccess, isFetching, fetchCount) ==
    [data |-> data, error |-> error, status |-> status, isLoading |-> isLoading,
     isError |-> isError, isSuccess |-> isSuccess, isFetching |-> isFetching,
     fetchCount |-> fetchCount]

\* the literal of getQueryState and of clear's resetState (no fetchCount)
IdleDefault == QState(Undefined, Null, "idle", FALSE, FALSE, FALSE, FALSE, Undefined)
\* the state useQuery seeds
SeedState == QState(Undefined, Null, "idle", FALSE, FALSE, FALSE, FALSE, 0)

getQueryState(k) == IF k \in DOMAIN queryStates THEN queryStates[k] ELSE IdleDefault
getQueryData(k) == IF k \in DOMAIN cache THEN cache[k] ELSE Undefined

\* notifySubscribers without its try/catch: the first throw ends the loop
\* (callbacks that throw stand first in the set here).
Deliveries_StopsAtThrow(subs, k, state) ==
    IF k \in DOMAIN subs
    THEN {[sub |-> s, key |-> k, state |-> state, threw |-> s \in ThrowingSubs] :
            s \in {t \in subs[k] : t \in ThrowingSubs \/ subs[k] \cap ThrowingSubs = {}}}
    ELSE {}

\* notifySubscribers: every callback of the key's set is called with the
\* state; a throw is caught and logged, the loop goes on.
Deliveries(subs, k, state) ==
    IF k \in DOMAIN subs
    THEN {[sub |-> s, key |-> k, state |-> state, threw |-> s \in ThrowingSubs] : s \in subs[k]}
    ELSE {}

\* The record an action leaves in lastOp.
\*   op       the handler that ran
\*   settled  "none" | "resolved" | "rejected" | "returned" | "threw"
\*   value    what the call returned or the promise settled with
\*   produced what the producer call that just settled resolved or rejected with
\*   success  whether that producer (or mutationFn) call resolved
\*   quiet    for a mutate call: no setState of reset() or of another mutate call
\*            since the call's own terminal setState
\*   invoked  producer invocations of the fetchQuery call that just ended
\*   options  the options that call read from its config when it started
\*   removed  removeQueryData(key) ran while that call was in flight, and no
\*            useQuery, prefetchQuery or setQueryData of the key since
\*   notified deliveries to subscriber callbacks, in this handler
\*   steps    the handler's writes, notification and lifecycle callbacks, in order
Op(op, k, settled, value, notified, steps) ==
    [op |-> op, key |-> k, id |-> 0, settled |-> settled, value |-> value,
     produced |-> Undefined, success |-> FALSE, quiet |-> TRUE, invoked |-> 0,
     removed |-> FALSE, options |-> DefaultOptions, notified |-> notified,
     steps |-> steps]

\* A lifecycle callback invocation, or a write, as one entry of lastOp.steps.
Ev(name, a, b) == [ev |-> name, a |-> a, b |-> b]
\* What a promise rejects with when a lifecycle callback threw.
CallbackError == -3

\* the two callbacks in the other order
CbSteps_SettledFirst(kind1, ev1, kind2, ev2) ==
    (IF kind2 = "none" THEN <<>> ELSE <<ev2>>)
    \o (IF kind2 = "throws" \/ kind1 = "none" THEN <<>> ELSE <<ev1>>)

\* Two optional callbacks run one after the other, the second only if the
\* first did not throw: the entries they leave, and whether one threw.
CbSteps(kind1, ev1, kind2, ev2) ==
    (IF kind1 = "none" THEN <<>> ELSE <<ev1>>)
    \o (IF kind1 = "throws" \/ kind2 = "none" THEN <<>> ELSE <<ev2>>)
CbThrew(kind1, kind2) == kind1 = "throws" \/ kind2 = "throws"

\* ------------------------------------------------------------ fetchQuery
\* fetchQuery up to its first await: the two guards, the start-of-fetch
\* state, the notification and the first producer call. configs is
\* queryConfigs as the caller left it (prefetchQuery sets it first).
NewState(cur) ==
    [cur EXCEPT !.status = IF Truthy(cur.data) THEN "success" ELSE "loading",
                !.isLoading = ~Truthy(cur.data),
                !.isFetching = TRUE,
                !.fetchCount = (IF Truthy(cur.fetchCount) THEN cur.fetchCount ELSE 0) + 1]

fetchQuery(op, k, configs) ==
    IF k \notin DOMAIN configs \/ k \notin DOMAIN queryStates
    THEN /\ UNCHANGED <<queryStates, fetches, nextId>>
         /\ lastOp' = Op(op, k, "resolved", Undefined, {}, <<>>)
    ELSE LET newState == NewState(queryStates[k]) IN
         /\ nextId <= MaxFetches
         /\ queryStates' = MapSet(queryStates, k, newState)
         /\ fetches' = MapSet(fetches, nextId,
                [key |-> k, options |-> configs[k], newState |-> newState,
                 attempt |-> 0, pc |-> "producer", invoked |-> 1, removed |-> FALSE])
         /\ nextId' = nextId + 1
         /\ lastOp' = [Op(op, k, "none", Undefined, Deliveries(subscribers, k, newState),
                          <<Ev("state", Undefined, Undefined), Ev("notify", Undefined, Undefined),
                            Ev("queryFn", 1, Undefined)>>)
                       EXCEPT !.id = nextId]

\* query.fetch / fetchQuery / query.refetch / refetchQuery
FetchQuery(k) ==
    /\ fetchQuery("fetchQuery", k, queryConfigs)
    /\ UNCHANGED <<cache, queryConfigs, subscribers, intervals, activeTimers, pendingAuto, mvars>>

\* the setTimeout(() => this.fetchQuery(queryKey), 0) of useQuery fires
AutoFetch(k) ==
    /\ pendingAuto[k] > 0
    /\ pendingAuto' = [pendingAuto EXCEPT ![k] = @ - 1]
    /\ fetchQuery("autoFetch", k, queryConfigs)
    /\ UNCHANGED <<cache, queryConfigs, subscribers, intervals, activeTimers, mvars>>

\* a setInterval timer of the key fires and its visibility gate passes
IntervalTick(k) ==
    /\ activeTimers[k] > 0
    /\ fetchQuery("intervalFetch", k, queryConfigs)
    /\ UNCHANGED <<cache, queryConfigs, subscribers, intervals, activeTimers, pendingAuto, mvars>>

\* successState that leaves isFetching set
SuccessState_StillFetching(d) == QState(d, Null, "success", FALSE, FALSE, TRUE, TRUE, Undefined)
SuccessState(d) == QState(d, Null, "success", FALSE, FALSE, TRUE, FALSE, Undefined)

\* a success branch that writes only for the call issued last
ProducerResolves_LatestIssuedOnly(id, d) ==
    /\ id \in DOMAIN fetches
    /\ fetches[id].pc = "producer"
    /\ LET f == fetches[id]
           k == f.key
           latest == \A j \in DOMAIN fetches : fetches[j].key = k => j <= id
       IN /\ cache' = IF latest THEN MapSet(cache, k, d) ELSE cache
          /\ queryStates' = IF latest THEN MapSet(queryStates, k, SuccessState(d)) ELSE queryStates
          /\ fetches' = MapDelete(fetches, id)
          /\ lastOp' = [Op("fetchSuccess", k, "resolved", d,
                           IF latest THEN Deliveries(subscribers, k, SuccessState(d)) ELSE {}, <<>>)
                        EXCEPT !.id = id, !.produced = d, !.success = TRUE,
                               !.invoked = f.invoked, !.removed = f.removed,
                               !.options = f.options]
    /\ UNCHANGED <<queryConfigs, subscribers, intervals, activeTimers, pendingAuto, nextId, mvars>>

\* The awaited producer call resolves with d: the loop is left and the
\* success branch runs to its return.
ProducerResolves(id, d) ==
    /\ id \in DOMAIN fetches
    /\ fetches[id].pc = "producer"
    /\ LET f == fetches[id]
           k == f.key
           o == f.options
       IN /\ cache' = MapSet(cache, k, d)
          /\ queryStates' = MapSet(queryStates, k, SuccessState(d))
          /\ fetches' = MapDelete(fetches, id)
          /\ lastOp' = [Op("fetchSuccess", k,
                           IF CbThrew(o.onSuccess, o.onSettled) THEN "rejected" ELSE "resolved",
                           IF CbThrew(o.onSuccess, o.onSettled) THEN CallbackError ELSE d,
                           Deliveries(subscribers, k, SuccessState(d)),
                           <<Ev("cache", d, Undefined), Ev("state", Undefined, Undefined),
                             Ev("notify", Undefined, Undefined)>>
                           \o CbSteps(o.onSuccess, Ev("onSuccess", d, Undefined),
                                      o.onSettled, Ev("onSettled", d, Null)))
                        EXCEPT !.id = id, !.produced = d, !.success = TRUE,
                               !.invoked = f.invoked, !.removed = f.removed,
                               !.options = o]
    /\ UNCHANGED <<queryConfigs, subscribers, intervals, activeTimers, pendingAuto, nextId, mvars>>

\* errorState without its isFetching: false
ErrorState_StillFetching(newState, e) ==
    [newState EXCEPT !.status = "error",
                     !.error = IF Truthy(e) THEN e ELSE Null,
                     !.isLoading = FALSE, !.isError = TRUE,
                     !.isSuccess = FALSE]

\* const errorState = {...newState, status: 'error', error: result.error || null, ...}
ErrorState(newState, e) ==
    [newState EXCEPT !.status = "error",
                     !.error = IF Truthy(e) THEN e ELSE Null,
                     !.isLoading = FALSE, !.isError = TRUE,
                     !.isSuccess = FALSE, !.isFetching = FALSE]

\* the loop condition with <= for <
ShouldRetry_OneMore(f) == f.attempt <= MaxRetries(f.options.retry)
\* while (!result.success && attempt < maxRetries)
ShouldRetry(f) == f.attempt < MaxRetries(f.options.retry)

\* the error branch ending in "throw result.error" instead of "return"
FetchErrorReturn_Rethrows(threw) == [settled |-> "rejected", value |-> CallbackError]
\* How the promise of fetchQuery settles at the end of the error branch:
\* "return" resolves it with undefined unless a lifecycle callback threw.
FetchErrorReturn(threw) ==
    IF threw THEN [settled |-> "rejected", value |-> CallbackError]
    ELSE [settled |-> "resolved", value |-> Undefined]

\* The code after an awaited producer call that rejected with e: either
\* another round of the retry loop starts (attempt++, wait for the retry
\* delay) or the error branch runs to its return.
RejectContinuation(id, e) ==
    LET f == fetches[id]
        k == f.key
        o == f.options
        errorState == ErrorState(f.newState, e)
        onErr == IF Truthy(e) THEN o.onError ELSE "none"
        onSet == IF Truthy(e) THEN o.onSettled ELSE "none"
        ret == FetchErrorReturn(CbThrew(onErr, onSet))
    IN IF ShouldRetry(f)
       THEN /\ fetches' = [fetches EXCEPT ![id].attempt = @ + 1, ![id].pc = "delay"]
            /\ lastOp' = [Op("retryWait", k, "none", Undefined, {}, <<>>)
                          EXCEPT !.id = id, !.produced = e]
            /\ UNCHANGED queryStates
       ELSE /\ queryStates' = MapSet(queryStates, k, errorState)
            /\ fetches' = MapDelete(fetches, id)
            /\ lastOp' = [Op("fetchError", k, ret.settled, ret.value,
                             Deliveries(subscribers, k, errorState),
                             <<Ev("state", Undefined, Undefined), Ev("notify", Undefined, Undefined)>>
                             \o CbSteps(onErr, Ev("onError", e, Undefined),
                                        onSet, Ev("onSettled", Undefined, e)))
                          EXCEPT !.id = id, !.produced = e, !.invoked = f.invoked,
                                 !.removed = f.removed, !.options = o]

\* an error branch that also drops the key's cache entry
ProducerRejects_DropsCache(id, e) ==
    /\ id \in DOMAIN fetches
    /\ fetches[id].pc = "producer"
    /\ RejectContinuation(id, e)
    /\ cache' = IF ShouldRetry(fetches[id]) THEN cache ELSE MapDelete(cache, fetches[id].key)
    /\ UNCHANGED <<queryConfigs, subscribers, intervals, activeTimers, pendingAuto, nextId, mvars>>

\* The awaited producer call rejects with e.
ProducerRejects(id, e) ==
    /\ id \in DOMAIN fetches
    /\ fetches[id].pc = "producer"
    /\ RejectContinuation(id, e)
    /\ UNCHANGED <<cache, queryConfigs, subscribers, intervals, activeTimers, pendingAuto, nextId, mvars>>

\* The retry delay elapses: result = await performFetch() calls the producer again.
RetryDelayElapses(id) ==
    /\ id \in DOMAIN fetches
    /\ fetches[id].pc = "delay"
    /\ fetches' = [fetches EXCEPT ![id].pc = "producer", ![id].invoked = @ + 1]
    /\ lastOp' = [Op("retry", fetches[id].key, "none", Undefined, {},
                     <<Ev("queryFn", fetches[id].invoked + 1, Undefined)>>)
                  EXCEPT !.id = id]
    /\ UNCHANGED <<cache, queryStates, queryConfigs, subscribers, intervals, activeTimers,
                   pendingAuto, nextId, mvars>>

\* ------------------------------------------------- the other operations
\* useQuery(queryKey, queryFn, options): o is finalOptions.
\* (No window object: the focus listener of lines 240-246 is not installed.)
UseQuery(k, o) ==
    /\ queryConfigs' = MapSet(queryConfigs, k, o)
    /\ queryStates' = IF k \in DOMAIN queryStates THEN queryStates
                      ELSE MapSet(queryStates, k, SeedState)
    /\ IF o.enabled
       THEN /\ pendingAuto[k] < MaxPending
            /\ pendingAuto' = [pendingAuto EXCEPT ![k] = @ + 1]
       ELSE UNCHANGED pendingAuto
    /\ IF o.refetchInterval /\ o.enabled
       THEN /\ activeTimers[k] < MaxTimers
            /\ activeTimers' = [activeTimers EXCEPT ![k] = @ + 1]
            /\ intervals' = intervals \cup {k}
       ELSE UNCHANGED <<activeTimers, intervals>>
    /\ lastOp' = Op("useQuery", k, "returned", Undefined, {}, <<>>)
    /\ UNCHANGED <<cache, subscribers, fetches, nextId, mvars>>

\* prefetchQuery(queryKey, queryFn, options)
PrefetchQuery(k, o) ==
    /\ queryConfigs' = MapSet(queryConfigs, k, o)
    /\ fetchQuery("prefetchQuery", k, MapSet(queryConfigs, k, o))
    /\ UNCHANGED <<cache, subscribers, intervals, activeTimers, pendingAuto, mvars>>

\* subscribeToQuery without its immediate callback(currentState)
SubscribeToQuery_NoImmediateCall(k, s) ==
    /\ subscribers' = MapSet(subscribers, k,
                             (IF k \in DOMAIN subscribers THEN subscribers[k] ELSE {}) \cup {s})
    /\ lastOp' = Op("subscribe", k, "returned", Undefined, {}, <<>>)
    /\ UNCHANGED <<cache, queryStates, queryConfigs, intervals, activeTimers, pendingAuto,
                   fetches, nextId, mvars>>

\* subscribeToQuery(queryKey, callback): the callback is added, then called
\* with the current state outside any try: its throw reaches the caller.
SubscribeToQuery(k, s) ==
    /\ subscribers' = MapSet(subscribers, k,
                             (IF k \in DOMAIN subscribers THEN subscribers[k] ELSE {}) \cup {s})
    /\ lastOp' = Op("subscribe", k, IF s \in ThrowingSubs THEN "threw" ELSE "returned",
                    Undefined,
                    {[sub |-> s, key |-> k, state |-> getQueryState(k), threw |-> s \in ThrowingSubs]},
                    <<>>)
    /\ UNCHANGED <<cache, queryStates, queryConfigs, intervals, activeTimers, pendingAuto,
                   fetches, nextId, mvars>>

\* the unsubscribe function subscribeToQuery returned
Unsubscribe(k, s) ==
    /\ k \in DOMAIN subscribers
    /\ s \in subscribers[k]
    /\ subscribers' = [subscribers EXCEPT ![k] = @ \ {s}]
    /\ lastOp' = Op("unsubscribe", k, "returned", Undefined, {}, <<>>)
    /\ UNCHANGED <<cache, queryStates, queryConfigs, intervals, activeTimers, pendingAuto,
                   fetches, nextId, mvars>>

\* a cancelQuery that also drops the key's calls in flight
CancelQuery_AbortsFetch(k) ==
    /\ IF k \in DOMAIN queryStates /\ queryStates[k].isFetching
       THEN LET cancelledState == [queryStates[k] EXCEPT !.isFetching = FALSE] IN
            /\ queryStates' = MapSet(queryStates, k, cancelledState)
            /\ lastOp' = Op("cancelQuery", k, "returned", Undefined,
                            Deliveries(subscribers, k, cancelledState),
                            <<Ev("state", Undefined, Undefined), Ev("notify", Undefined, Undefined)>>)
       ELSE /\ UNCHANGED queryStates
            /\ lastOp' = Op("cancelQuery", k, "returned", Undefined, {}, <<>>)
    /\ fetches' = [i \in {j \in DOMAIN fetches : fetches[j].key # k} |-> fetches[i]]
    /\ UNCHANGED <<cache, queryConfigs, subscribers, intervals, activeTimers, pendingAuto,
                   nextId, mvars>>

\* cancelQuery(queryKey)
CancelQuery(k) ==
    /\ IF k \in DOMAIN queryStates /\ queryStates[k].isFetching
       THEN LET cancelledState == [queryStates[k] EXCEPT !.isFetching = FALSE] IN
            /\ queryStates' = MapSet(queryStates, k, cancelledState)
            /\ lastOp' = Op("cancelQuery", k, "returned", Undefined,
                            Deliveries(subscribers, k, cancelledState),
                            <<Ev("state", Undefined, Undefined), Ev("notify", Undefined, Undefined)>>)
       ELSE /\ UNCHANGED queryStates
            /\ lastOp' = Op("cancelQuery", k, "returned", Undefined, {}, <<>>)
    /\ UNCHANGED <<cache, queryConfigs, subscribers, intervals, activeTimers, pendingAuto,
                   fetches, nextId, mvars>>

\* invalidateQuery without its cache.delete
InvalidateQuery_KeepsCache(k) ==
    /\ fetchQuery("invalidateQuery", k, queryConfigs)
    /\ UNCHANGED <<cache, queryConfigs, subscribers, intervals, activeTimers, pendingAuto, mvars>>

\* invalidateQuery(queryKey)
InvalidateQuery(k) ==
    /\ cache' = MapDelete(cache, k)
    /\ fetchQuery("invalidateQuery", k, queryConfigs)
    /\ UNCHANGED <<queryConfigs, subscribers, intervals, activeTimers, pendingAuto, mvars>>

\* setQueryData writing the cache only
SetQueryData_CacheOnly(k, d) ==
    /\ cache' = MapSet(cache, k, d)
    /\ lastOp' = Op("setQueryData", k, "returned", d, {}, <<Ev("cache", d, Undefined)>>)
    /\ UNCHANGED <<queryStates, fetches, queryConfigs, subscribers, intervals, activeTimers,
                   pendingAuto, nextId, mvars>>

\* setQueryData(queryKey, data)
SetQueryData(k, d) ==
    /\ cache' = MapSet(cache, k, d)
    /\ queryStates' = MapSet(queryStates, k, SuccessState(d))
    /\ fetches' = [i \in DOMAIN fetches |->
                     IF fetches[i].key = k THEN [fetches[i] EXCEPT !.removed = FALSE]
                     ELSE fetches[i]]
    /\ lastOp' = Op("setQueryData", k, "returned", d,
                    Deliveries(subscribers, k, SuccessState(d)),
                    <<Ev("cache", d, Undefined), Ev("state", Undefined, Undefined),
                      Ev("notify", Undefined, Undefined)>>)
    /\ UNCHANGED <<queryConfigs, subscribers, intervals, activeTimers, pendingAuto, nextId, mvars>>

\* removeQueryData(queryKey)
RemoveQueryData(k) ==
    /\ cache' = MapDelete(cache, k)
    /\ queryStates' = MapDelete(queryStates, k)
    /\ queryConfigs' = MapDelete(queryConfigs, k)
    /\ subscribers' = MapDelete(subscribers, k)
    /\ IF k \in intervals
       THEN /\ activeTimers' = [activeTimers EXCEPT ![k] = @ - 1]
            /\ intervals' = intervals \ {k}
       ELSE UNCHANGED <<activeTimers, intervals>>
    /\ fetches' = [i \in DOMAIN fetches |->
                     IF fetches[i].key = k THEN [fetches[i] EXCEPT !.removed = TRUE]
                     ELSE fetches[i]]
    /\ lastOp' = Op("removeQueryData", k, "returned", Undefined, {}, <<>>)
    /\ UNCHANGED <<pendingAuto, nextId, mvars>>

\* clear() dropping the subscriber sets before it notifies them
Clear_DropsThenNotifies ==
    /\ cache' = EmptyMap
    /\ queryStates' = EmptyMap
    /\ queryConfigs' = EmptyMap
    /\ activeTimers' = [k \in Keys |-> IF k \in intervals THEN activeTimers[k] - 1
                                       ELSE activeTimers[k]]
    /\ intervals' = {}
    /\ subscribers' = EmptyMap
    /\ lastOp' = Op("clear", "", "returned", Undefined, {}, <<>>)
    /\ UNCHANGED <<pendingAuto, fetches, nextId, mvars>>

\* clear()
Clear ==
    /\ cache' = EmptyMap
    /\ queryStates' = EmptyMap
    /\ queryConfigs' = EmptyMap
    /\ activeTimers' = [k \in Keys |-> IF k \in intervals THEN activeTimers[k] - 1
                                       ELSE activeTimers[k]]
    /\ intervals' = {}
    /\ subscribers' = EmptyMap
    /\ lastOp' = Op("clear", "", "returned", Undefined,
                    UNION {Deliveries(subscribers, k, IdleDefault) : k \in DOMAIN subscribers},
                    <<>>)
    /\ UNCHANGED <<pendingAuto, fetches, nextId, mvars>>

\* ------------------------------------------------------- specification
\* Options callers pass.
NoRetry == [DefaultOptions EXCEPT !.retry = BoolRetry(FALSE)]
RetryOptions == {BoolRetry(TRUE), BoolRetry(FALSE)} \cup {NumRetry(n) : n \in 0..MaxRetryOption}

\* ------------------------------------------------------------ useMutation
\* defaultOptions of useMutation
DefaultMutationOptions ==
    [retry |-> 0, onMutate |-> "none", onSuccess |-> "none", onError |-> "none",
     onSettled |-> "none"]

\* mutationState as created, and the updates reset() passes to setState
MutationIdle ==
    [isIdle |-> TRUE, isLoading |-> FALSE, isSuccess |-> FALSE, isError |-> FALSE,
     data |-> Undefined, error |-> Null, status |-> "idle"]

\* setState: Object.assign(mutationState, updates), then every subscriber
\* is called with a copy (a throw is caught and logged).
Assign(ms, updates) ==
    [f \in DOMAIN ms |-> IF f \in DOMAIN updates THEN updates[f] ELSE ms[f]]
MutDeliveries(ms) ==
    {[sub |-> s, key |-> "", state |-> ms, threw |-> s \in ThrowingSubs] : s \in mutSubs}

\* the value onMutate returns, and the argument of mutate
Context == 7
Variables == 5

\* A callback invocation of a mutate call, as one entry of lastOp.steps.
MEv(name, data, error, variables, context) ==
    [ev |-> name, data |-> data, error |-> error, variables |-> variables,
     context |-> context]

\* a return that resolves with undefined when the mutation failed, as
\* fetchQuery does
MutateReturn_NeverRejects(c) ==
    [done |-> TRUE, pc |-> "done", settled |-> "resolved",
     value |-> IF c.success THEN c.data ELSE Undefined, steps |-> <<>>]
\* return result.success && resultData ? resultData : Promise.reject(result.error)
MutateReturn(c) ==
    IF c.success /\ Truthy(c.data)
    THEN [done |-> TRUE, pc |-> "done", settled |-> "resolved", value |-> c.data, steps |-> <<>>]
    ELSE [done |-> TRUE, pc |-> "done", settled |-> "rejected", value |-> c.error, steps |-> <<>>]

\* An awaited callback of kind "ok" suspends the call at pc; one that throws
\* rejects the promise of mutate there and then.
AwaitCallback(kind, pc, ev) ==
    IF kind = "throws"
    THEN [done |-> TRUE, pc |-> "done", settled |-> "rejected", value |-> CallbackError,
          steps |-> <<ev>>]
    ELSE [done |-> FALSE, pc |-> pc, settled |-> "none", value |-> Undefined, steps |-> <<ev>>]

\* onSettled called without await: the call returns in the same stretch
SettledPhase_NoAwait(c) ==
    IF mutOptions.onSettled = "none" THEN MutateReturn(c)
    ELSE [MutateReturn(c) EXCEPT !.steps =
            <<MEv("onSettled", IF c.success THEN c.data ELSE Undefined,
                  IF c.success THEN Null ELSE (IF Truthy(c.error) THEN c.error ELSE Null),
                  c.variables, c.context)>>]

\* if (finalOptions.onSettled) await finalOptions.onSettled(...), then the return
SettledPhase(c) ==
    IF mutOptions.onSettled = "none" THEN MutateReturn(c)
    ELSE AwaitCallback(mutOptions.onSettled, "onSettled",
                       MEv("onSettled", IF c.success THEN c.data ELSE Undefined,
                           IF c.success THEN Null
                           ELSE (IF Truthy(c.error) THEN c.error ELSE Null),
                           c.variables, c.context))

\* the code that follows the terminal setState: onSuccess or onError if
\* configured (onError only for a truthy error), else the settled phase
OutcomePhase(c) ==
    LET kind == IF c.success THEN mutOptions.onSuccess
                ELSE IF Truthy(c.error) THEN mutOptions.onError ELSE "none"
    IN IF kind = "none" THEN SettledPhase(c)
       ELSE IF c.success
            THEN AwaitCallback(kind, "onSuccess", MEv("onSuccess", c.data, Undefined, c.variables, c.context))
            ELSE AwaitCallback(kind, "onError", MEv("onError", Undefined, c.error, c.variables, c.context))

\* The in-flight calls after a setState that is not theirs (all of them
\* for reset(), all but id for a mutate call): their quiet flag falls.
Disturbed(m, id) ==
    [i \in DOMAIN m |-> IF i = id THEN m[i] ELSE [m[i] EXCEPT !.quiet = FALSE]]

\* The call c goes on as r says: it stays in flight at r.pc or it is over.
\* wrote: the step began with the terminal setState to ms.
MutContinue(id, c, r, wrote, ms, steps) ==
    /\ mutations' = LET m == IF wrote THEN Disturbed(mutations, id) ELSE mutations
                    IN IF r.done THEN MapDelete(m, id)
                       ELSE MapSet(m, id, [c EXCEPT !.pc = r.pc])
    /\ lastOp' = [Op("mutate", "", r.settled, r.value,
                     IF wrote THEN MutDeliveries(ms) ELSE {}, steps \o r.steps)
                  EXCEPT !.id = id, !.invoked = c.invoked, !.success = c.success,
                         !.quiet = c.quiet,
                         !.produced = IF c.success THEN c.data ELSE c.error]

LoadingUpdates == [isIdle |-> FALSE, isLoading |-> TRUE, status |-> "loading"]

\* setState({isIdle: false, isLoading: true, status: 'loading'}) and the
\* first call of mutationFn
StartMutation(id, c, steps) ==
    LET ms == Assign(mutationState, LoadingUpdates) IN
    /\ mutationState' = ms
    /\ mutations' = MapSet(Disturbed(mutations, id), id,
                           [c EXCEPT !.pc = "mutationFn", !.invoked = 1])
    /\ lastOp' = [Op("mutate", "", "none", Undefined, MutDeliveries(ms),
                     steps \o <<MEv("setState", Undefined, Undefined, c.variables, c.context),
                                MEv("mutationFn", Undefined, Undefined, c.variables, c.context)>>)
                  EXCEPT !.id = id, !.invoked = 1]

NewMutation(v) ==
    [variables |-> v, context |-> Undefined, attempt |-> 0, pc |-> "start",
     invoked |-> 0, success |-> FALSE, data |-> Undefined, error |-> Undefined,
     quiet |-> TRUE]

\* mutate(variables) up to its first await
Mutate(v) ==
    /\ nextMut <= MaxMutations
    /\ nextMut' = nextMut + 1
    /\ IF mutOptions.onMutate = "none"
       THEN StartMutation(nextMut, NewMutation(v), <<>>)
       ELSE /\ mutations' = MapSet(mutations, nextMut, [NewMutation(v) EXCEPT !.pc = "onMutate"])
            /\ lastOp' = [Op("mutate", "", "none", Undefined, {},
                             <<MEv("onMutate", Undefined, Undefined, v, Undefined)>>)
                          EXCEPT !.id = nextMut]
            /\ UNCHANGED mutationState
    /\ UNCHANGED <<qvars, mutOptions, mutSubs>>

\* await finalOptions.onMutate(variables) is over: context is its value,
\* or stays undefined when it threw (caught and logged)
OnMutateSettles(id) ==
    /\ id \in DOMAIN mutations
    /\ mutations[id].pc = "onMutate"
    /\ StartMutation(id, [mutations[id] EXCEPT
                            !.context = IF mutOptions.onMutate = "ok" THEN Context ELSE Undefined],
                     <<>>)
    /\ UNCHANGED <<qvars, nextMut, mutOptions, mutSubs>>

SuccessUpdates(d) ==
    [isLoading |-> FALSE, isSuccess |-> TRUE, isError |-> FALSE, data |-> d,
     error |-> Null, status |-> "success"]

\* the awaited mutationFn resolves with d
MutationResolves(id, d) ==
    /\ id \in DOMAIN mutations
    /\ mutations[id].pc = "mutationFn"
    /\ LET c == [mutations[id] EXCEPT !.success = TRUE, !.data = d, !.error = Undefined]
           ms == Assign(mutationState, SuccessUpdates(d))
       IN /\ mutationState' = ms
          /\ MutContinue(id, c, OutcomePhase(c), TRUE, ms,
                         <<MEv("setState", d, Null, c.variables, c.context)>>)
    /\ UNCHANGED <<qvars, nextMut, mutOptions, mutSubs>>

ErrorUpdates(e) ==
    [isLoading |-> FALSE, isSuccess |-> FALSE, isError |-> TRUE, data |-> Undefined,
     error |-> e, status |-> "error"]

\* the awaited mutationFn rejects with e: retry, or the error branch
MutationRejects(id, e) ==
    /\ id \in DOMAIN mutations
    /\ mutations[id].pc = "mutationFn"
    /\ LET c == [mutations[id] EXCEPT !.success = FALSE, !.error = e]
           ms == Assign(mutationState, ErrorUpdates(e))
       IN IF c.attempt < mutOptions.retry
          THEN /\ mutations' = MapSet(mutations, id, [c EXCEPT !.attempt = @ + 1, !.pc = "delay"])
               /\ lastOp' = [Op("mutate", "", "none", Undefined, {}, <<>>)
                             EXCEPT !.id = id, !.produced = e, !.invoked = c.invoked]
               /\ UNCHANGED mutationState
          ELSE /\ mutationState' = ms
               /\ MutContinue(id, c, OutcomePhase(c), TRUE, ms,
                              <<MEv("setState", Undefined, e, c.variables, c.context)>>)
    /\ UNCHANGED <<qvars, nextMut, mutOptions, mutSubs>>

\* the retry delay of a mutate call elapses: mutationFn is called again
MutRetryDelayElapses(id) ==
    /\ id \in DOMAIN mutations
    /\ mutations[id].pc = "delay"
    /\ mutations' = [mutations EXCEPT ![id].pc = "mutationFn", ![id].invoked = @ + 1]
    /\ lastOp' = [Op("mutate", "", "none", Undefined, {},
                     <<MEv("mutationFn", Undefined, Undefined, mutations[id].variables,
                           mutations[id].context)>>)
                  EXCEPT !.id = id, !.invoked = mutations[id].invoked + 1]
    /\ UNCHANGED <<qvars, mutationState, nextMut, mutOptions, mutSubs>>

\* an awaited onSuccess, onError or onSettled returns
MutCallbackReturns(id) ==
    /\ id \in DOMAIN mutations
    /\ mutations[id].pc \in {"onSuccess", "onError", "onSettled"}
    /\ LET c == mutations[id] IN
       MutContinue(id, c, IF c.pc = "onSettled" THEN MutateReturn(c) ELSE SettledPhase(c),
                   FALSE, mutationState, <<>>)
    /\ UNCHANGED <<qvars, mutationState, nextMut, mutOptions, mutSubs>>

\* a reset() that drops the calls in flight
Reset_CancelsInFlight ==
    /\ mutationState' = Assign(mutationState, MutationIdle)
    /\ lastOp' = Op("reset", "", "returned", Undefined,
                    MutDeliveries(Assign(mutationState, MutationIdle)), <<>>)
    /\ mutations' = EmptyMap
    /\ UNCHANGED <<qvars, nextMut, mutOptions, mutSubs>>

\* reset()
Reset ==
    /\ mutationState' = Assign(mutationState, MutationIdle)
    /\ lastOp' = Op("reset", "", "returned", Undefined,
                    MutDeliveries(Assign(mutationState, MutationIdle)), <<>>)
    /\ mutations' = Disturbed(mutations, 0)
    /\ UNCHANGED <<qvars, nextMut, mutOptions, mutSubs>>

\* subscribe(callback) of the mutation instance
MutSubscribe(s) ==
    /\ mutSubs' = mutSubs \cup {s}
    /\ lastOp' = Op("mutationSubscribe", "", IF s \in ThrowingSubs THEN "threw" ELSE "returned",
                    Undefined,
                    {[sub |-> s, key |-> "", state |-> mutationState, threw |-> s \in ThrowingSubs]},
                    <<>>)
    /\ UNCHANGED <<qvars, mutationState, mutations, nextMut, mutOptions>>

\* the unsubscribe function subscribe returned
MutUnsubscribe(s) ==
    /\ s \in mutSubs
    /\ mutSubs' = mutSubs \ {s}
    /\ lastOp' = Op("mutationUnsubscribe", "", "returned", Undefined, {}, <<>>)
    /\ UNCHANGED <<qvars, mutationState, mutations, nextMut, mutOptions>>

Init ==
    /\ cache = EmptyMap
    /\ queryStates = EmptyMap
    /\ queryConfigs = EmptyMap
    /\ subscribers = EmptyMap
    /\ intervals = {}
    /\ activeTimers = [k \in Keys |-> 0]
    /\ pendingAuto = [k \in Keys |-> 0]
    /\ fetches = EmptyMap
    /\ nextId = 1
    /\ lastOp = Op("constructor", "", "returned", Undefined, {}, <<>>)
    /\ mutationState = MutationIdle
    /\ mutations = EmptyMap
    /\ nextMut = 1
    /\ mutOptions = DefaultMutationOptions
    /\ mutSubs = {}

\* The next-state relation over the keys K, the options O, the subscriber
\* callbacks S, the producer's values D and its rejection values E.
NextOver(K, O, S, D, E) ==
    \/ \E k \in K, o \in O : UseQuery(k, o)
    \/ \E k \in K, o \in O : PrefetchQuery(k, o)
    \/ \E k \in K : FetchQuery(k)
    \/ \E k \in K : AutoFetch(k)
    \/ \E id \in DOMAIN fetches, d \in D : ProducerResolves(id, d)
    \/ \E id \in DOMAIN fetches, e \in E : ProducerRejects(id, e)
    \/ \E k \in K, s \in S : SubscribeToQuery(k, s)
    \/ \E k \in K, s \in S : Unsubscribe(k, s)
    \/ \E k \in K : CancelQuery(k)
    \/ \E k \in K : InvalidateQuery(k)
    \/ \E k \in K, d \in D : SetQueryData(k, d)
    \/ \E k \in K : RemoveQueryData(k)
    \/ Clear

\* The engine with one key, one subscriber callback and retry: false, so
\* that no fetch waits for a retry delay (RetrySpec has the retry loop).
Next == NextOver({"a"}, {NoRetry}, {"s1"}, Data, Errors \ {0})

Spec == Init /\ [][Next]_vars

\* The engine with default options and a producer that always resolves,
\* keys never removed. The event loop runs every due timer callback and
\* every continuation of a settled promise.
LiveNext ==
    \/ UseQuery("a", DefaultOptions)
    \/ FetchQuery("a")
    \/ AutoFetch("a")
    \/ \E id \in DOMAIN fetches, d \in Data : ProducerResolves(id, d)
    \/ SubscribeToQuery("a", "s1")
    \/ CancelQuery("a")
    \/ InvalidateQuery("a")
    \/ \E d \in Data : SetQueryData("a", d)

LiveSpec ==
    /\ Init
    /\ [][LiveNext]_vars
    /\ WF_vars(AutoFetch("a"))
    /\ \A id \in 1..MaxFetches : WF_vars(\E d \in Data : ProducerResolves(id, d))

\* The retry loop: one key registered with every retry option and fetched
\* while its producer resolves or rejects.
RetryNext ==
    \/ \E r \in RetryOptions \cup {DefaultOptions.retry} :
          UseQuery("a", [DefaultOptions EXCEPT !.retry = r])
    \/ FetchQuery("a")
    \/ AutoFetch("a")
    \/ \E id \in DOMAIN fetches : ProducerResolves(id, 1)
    \/ \E id \in DOMAIN fetches : ProducerRejects(id, 1)
    \/ \E id \in DOMAIN fetches : RetryDelayElapses(id)

RetrySpec == Init /\ [][RetryNext]_vars

\* clear() with two keys and two subscriber callbacks, one of which
\* throws, while fetches are in flight.
ClearNext ==
    \/ \E k \in Keys : UseQuery(k, NoRetry)
    \/ \E k \in Keys : AutoFetch(k)
    \/ \E id \in DOMAIN fetches : ProducerResolves(id, 1)
    \/ \E k \in Keys, s \in Subs : SubscribeToQuery(k, s)
    \/ Clear

ClearSpec == Init /\ [][ClearNext]_vars

\* One useMutation instance: default options, or one retry with the four
\* callbacks configured.
MutationOptions ==
    {DefaultMutationOptions,
     [retry |-> 1, onMutate |-> "ok", onSuccess |-> "ok", onError |-> "ok", onSettled |-> "ok"]}

MutInit ==
    /\ cache = EmptyMap
    /\ queryStates = EmptyMap
    /\ queryConfigs = EmptyMap
    /\ subscribers = EmptyMap
    /\ intervals = {}
    /\ activeTimers = [k \in Keys |-> 0]
    /\ pendingAuto = [k \in Keys |-> 0]
    /\ fetches = EmptyMap
    /\ nextId = 1
    /\ lastOp = Op("useMutation", "", "returned", Undefined, {}, <<>>)
    /\ mutationState = MutationIdle
    /\ mutations = EmptyMap
    /\ nextMut = 1
    /\ mutOptions \in MutationOptions
    /\ mutSubs = {}

MutNext ==
    \/ Mutate(Variables)
    \/ \E id \in DOMAIN mutations : OnMutateSettles(id)
    \/ \E id \in DOMAIN mutations, d \in Data : MutationResolves(id, d)
    \/ \E id \in DOMAIN mutations, e \in Errors : MutationRejects(id, e)
    \/ \E id \in DOMAIN mutations : MutRetryDelayElapses(id)
    \/ \E id \in DOMAIN mutations : MutCallbackReturns(id)
    \/ Reset
    \/ MutSubscribe("s1")

MutSpec == MutInit /\ [][MutNext]_vars

\* Recurring refetch: one key registered, again and again, with or without
\* a refetchInterval, its timers firing, the key removed, the client cleared.
IntervalOptions == [NoRetry EXCEPT !.refetchInterval = TRUE]

TimerNext ==
    \/ \E o \in {NoRetry, IntervalOptions} : UseQuery("a", o)
    \/ AutoFetch("a")
    \/ IntervalTick("a")
    \/ \E id \in DOMAIN fetches : ProducerResolves(id, 1)
    \/ RemoveQueryData("a")
    \/ Clear

TimerSpec == Init /\ [][TimerNext]_vars

\* Notification: one key with both subscriber callbacks, one of which
\* throws, coming and going while the key's state changes.
SubNext ==
    \/ UseQuery("a", NoRetry)
    \/ FetchQuery("a")
    \/ AutoFetch("a")
    \/ \E id \in DOMAIN fetches : ProducerResolves(id, 1)
    \/ \E id \in DOMAIN fetches : ProducerRejects(id, 1)
    \/ \E s \in Subs : SubscribeToQuery("a", s)
    \/ \E s \in Subs : Unsubscribe("a", s)
    \/ CancelQuery("a")
    \/ SetQueryData("a", 1)

SubSpec == Init /\ [][SubNext]_vars

\* Lifecycle callbacks: one key registered with no callback, with
\* onSuccess, onError and onSettled configured, or with one of the three
\* throwing.
AllCallbacks == [NoRetry EXCEPT !.onSuccess = "ok", !.onError = "ok", !.onSettled = "ok"]
CallbackOptions ==
    {NoRetry, AllCallbacks,
     [AllCallbacks EXCEPT !.onSuccess = "throws"],
     [AllCallbacks EXCEPT !.onError = "throws"],
     [AllCallbacks EXCEPT !.onSettled = "throws"]}

CallbackNext ==
    \/ \E o \in CallbackOptions : UseQuery("a", o)
    \/ FetchQuery("a")
    \/ AutoFetch("a")
    \/ \E id \in DOMAIN fetches : ProducerResolves(id, 1)
    \/ \E id \in DOMAIN fetches, e \in Errors : ProducerRejects(id, e)
    \/ SubscribeToQuery("a", "s1")

CallbackSpec == Init /\ [][CallbackNext]_vars

\* One useMutation instance whose four callbacks are configured, onMutate
\* returning a context or throwing.
AllMutationCallbacks ==
    [retry |-> 1, onMutate |-> "ok", onSuccess |-> "ok", onError |-> "ok", onSettled |-> "ok"]
OrderedMutationOptions ==
    {AllMutationCallbacks, [AllMutationCallbacks EXCEPT !.retry = 0, !.onMutate = "throws"]}

MutOrderInit ==
    /\ cache = EmptyMap
    /\ queryStates = EmptyMap
    /\ queryConfigs = EmptyMap
    /\ subscribers = EmptyMap
    /\ intervals = {}
    /\ activeTimers = [k \in Keys |-> 0]
    /\ pendingAuto = [k \in Keys |-> 0]
    /\ fetches = EmptyMap
    /\ nextId = 1
    /\ lastOp = Op("useMutation", "", "returned", Undefined, {}, <<>>)
    /\ mutationState = MutationIdle
    /\ mutations = EmptyMap
    /\ nextMut = 1
    /\ mutOptions \in OrderedMutationOptions
    /\ mutSubs = {}

MutOrderSpec == MutOrderInit /\ [][MutNext]_vars

\* Cancellation: one key with one retry and one subscriber, fetched and
\* cancelled while its producer resolves or rejects.
OneRetry == [DefaultOptions EXCEPT !.retry = NumRetry(1)]

CancelNext ==
    \/ UseQuery("a", OneRetry)
    \/ FetchQuery("a")
    \/ AutoFetch("a")
    \/ \E id \in DOMAIN fetches : ProducerResolves(id, 1)
    \/ \E id \in DOMAIN fetches : ProducerRejects(id, 1)
    \/ \E id \in DOMAIN fetches : RetryDelayElapses(id)
    \/ SubscribeToQuery("a", "s1")
    \/ CancelQuery("a")

CancelSpec == Init /\ [][CancelNext]_vars

\* Termination of the retry loop: one key registered with retry false, a
\* negative number, 0 or 1; the event loop runs every due timer callback,
\* every producer call settles and every retry delay elapses.
TermRetryOptions == {BoolRetry(FALSE), NumRetry(-1), NumRetry(0), NumRetry(1)}

TermNext ==
    \/ \E r \in TermRetryOptions : UseQuery("a", [DefaultOptions EXCEPT !.retry = r])
    \/ FetchQuery("a")
    \/ AutoFetch("a")
    \/ \E id \in DOMAIN fetches : ProducerResolves(id, 1)
    \/ \E id \in DOMAIN fetches : ProducerRejects(id, 1)
    \/ \E id \in DOMAIN fetches : RetryDelayElapses(id)

TermSpec ==
    /\ Init
    /\ [][TermNext]_vars
    /\ WF_vars(AutoFetch("a"))
    /\ \A id \in 1..MaxFetches :
          /\ WF_vars(ProducerResolves(id, 1) \/ ProducerRejects(id, 1))
          /\ WF_vars(RetryDelayElapses(id))

\* ------------------------------------------------------------- claims

\* C1: when a fetch completes with the producer resolving to X, the key's
\* state is {status: success, isSuccess: true, isLoading: false,
\* isFetching: false, error: null, data: X} and getQueryData(key) is X; a
\* key registered with default options, its auto-fetch pending, eventually
\* reaches such a state.
C1_SuccessPath ==
    /\ [](lastOp.op = "fetchSuccess" =>
            /\ lastOp.key \in DOMAIN queryStates
            /\ LET st == queryStates[lastOp.key] IN
               /\ st.status = "success" /\ st.isSuccess /\ ~st.isLoading
               /\ ~st.isFetching /\ ~st.isError /\ st.error = Null
               /\ st.data = lastOp.produced
            /\ getQueryData(lastOp.key) = lastOp.produced
            /\ lastOp.produced \in Data)
    /\ \A k \in Keys :
          (pendingAuto[k] > 0 /\ k \in DOMAIN queryConfigs /\ queryConfigs[k] = DefaultOptions)
            ~> (/\ k \in DOMAIN queryStates
                /\ queryStates[k].status = "success" /\ queryStates[k].isSuccess
                /\ queryStates[k].data \in Data
                /\ getQueryData(k) = queryStates[k].data)
C1_Witness ==
    /\ lastOp.op = "fetchSuccess"
    /\ lastOp.id = 1
    /\ pendingAuto["a"] = 0
    /\ queryStates["a"].data = 1

\* C2: a top-level fetch whose producer rejects on every attempt has invoked
\* the producer exactly m+1 times when it writes the error state, m being
\* the retry budget (retry: true -> 3, false -> 0, n -> n); a fetch still
\* in flight has invoked it at most m+1 times.
C2_Budget(retry) ==
    CASE retry = BoolRetry(TRUE) -> 3
      [] retry = BoolRetry(FALSE) -> 0
      [] OTHER -> retry.n
C2_RetryExhaustion ==
    /\ lastOp.op = "fetchError" =>
         /\ lastOp.invoked = C2_Budget(lastOp.options.retry) + 1
         /\ lastOp.key \in DOMAIN queryStates
         /\ queryStates[lastOp.key].status = "error"
         /\ queryStates[lastOp.key].isError
    /\ \A id \in DOMAIN fetches :
         /\ fetches[id].invoked <= C2_Budget(fetches[id].options.retry) + 1
         /\ fetches[id].invoked >= 1
C2_Witness ==
    /\ lastOp.op = "fetchError"
    /\ lastOp.options.retry = NumRetry(2)
    /\ lastOp.invoked = 3
C2_WitnessFalse ==
    /\ lastOp.op = "fetchError"
    /\ lastOp.options.retry = BoolRetry(FALSE)
    /\ lastOp.invoked = 1
C2_WitnessTrue ==
    /\ lastOp.op = "fetchError"
    /\ lastOp.options.retry = BoolRetry(TRUE)
    /\ lastOp.invoked = 4

\* C3: a fetch that ends in failure does not modify the cache, and leaves
\* the key's state with isError true: after a successful fetch stored X, a
\* failed refetch leaves getQueryData(key) = X.
C3_FailureKeepsCache ==
    [][lastOp'.op = "fetchError" =>
         /\ cache' = cache
         /\ queryStates'[lastOp'.key].isError
         /\ queryStates'[lastOp'.key].status = "error"]_vars
C3_Witness ==
    /\ lastOp.op = "fetchError"
    /\ lastOp.id = 2
    /\ getQueryData("a") = 1
    /\ queryStates["a"].isError
    /\ queryStates["a"].data = 1

\* C4: the promise of fetchQuery does not reject because the producer
\* failed: it resolves with the data when the producer succeeded and with
\* undefined when the retry budget is exhausted, the error being in the
\* state.
C4_FetchNeverRejects ==
    /\ lastOp.op = "fetchError" =>
         /\ lastOp.settled = "resolved"
         /\ lastOp.value = Undefined
         /\ queryStates[lastOp.key].error = lastOp.produced
    /\ lastOp.op = "fetchSuccess" =>
         /\ lastOp.settled = "resolved"
         /\ lastOp.value = lastOp.produced
C4_Witness ==
    /\ lastOp.op = "fetchError"
    /\ lastOp.settled = "resolved"
    /\ lastOp.produced = 1
    /\ queryStates["a"].error = 1

\* C7: a fetch in flight when removeQueryData(key) ran, with no later
\* registration or setQueryData of the key, leaves on completion no cache
\* entry, state, config or subscriber set of the key.
C7_RemovalIsAtomic ==
    (lastOp.op \in {"fetchSuccess", "fetchError"} /\ lastOp.removed) =>
        /\ lastOp.key \notin DOMAIN cache
        /\ lastOp.key \notin DOMAIN queryStates
        /\ lastOp.key \notin DOMAIN queryConfigs
        /\ lastOp.key \notin DOMAIN subscribers
        /\ getQueryData(lastOp.key) = Undefined
        /\ getQueryState(lastOp.key) = IdleDefault

\* C9: prefetchQuery on any key stores the config and performs one fetch:
\* when it returns, the producer has been invoked once and the call is in
\* flight.
C9_PrefetchFetches ==
    lastOp.op = "prefetchQuery" =>
        /\ lastOp.key \in DOMAIN queryConfigs
        /\ lastOp.id \in DOMAIN fetches
        /\ fetches[lastOp.id].key = lastOp.key
        /\ fetches[lastOp.id].invoked = 1

\* C10: in every query state the flags are projections of status.
C10_FlagsFollowStatus ==
    \A k \in DOMAIN queryStates :
        /\ queryStates[k].isLoading <=> queryStates[k].status = "loading"
        /\ queryStates[k].isSuccess <=> queryStates[k].status = "success"
        /\ queryStates[k].isError <=> queryStates[k].status = "error"

\* C8 as stated: clear() delivers to every observer subscribed before it
\* exactly one notification, the canonical idle state, and leaves no cache
\* entry.
CanonicalIdle(st) ==
    /\ st.status = "idle" /\ st.data = Undefined /\ st.error = Null
    /\ ~st.isLoading /\ ~st.isError /\ ~st.isSuccess /\ ~st.isFetching
C5_MutateRejects ==
    (lastOp.op = "mutate" /\ lastOp.settled # "none" /\ ~lastOp.success) =>
        /\ lastOp.settled = "rejected"
        /\ lastOp.value = lastOp.produced
        /\ lastOp.produced \in Errors
        /\ lastOp.invoked = mutOptions.retry + 1
        /\ lastOp.quiet =>
             /\ mutationState.isError
             /\ mutationState.status = "error"
             /\ mutationState.error = lastOp.produced
C5_Witness ==
    /\ lastOp.op = "mutate"
    /\ lastOp.settled = "rejected"
    /\ ~lastOp.success
    /\ lastOp.value = 1
    /\ lastOp.invoked = 2
    /\ mutationState.isError
    /\ mutationState.error = 1

\* C6: a mutate call whose mutationFn resolved with D, whatever D is,
\* sets the state to success with data D and resolves its promise with D.
C6_MutateResolves ==
    /\ (lastOp.op = "mutate" /\ lastOp.settled # "none" /\ lastOp.success) =>
          /\ lastOp.settled = "resolved"
          /\ lastOp.value = lastOp.produced
    /\ (lastOp.op = "mutate" /\ lastOp.success /\ lastOp.steps # <<>>
          /\ lastOp.steps[1].ev = "setState") =>
          /\ mutationState.status = "success"
          /\ mutationState.isSuccess
          /\ mutationState.data = lastOp.produced

\* The handlers that are a top-level fetchQuery call passing its guards.
FetchStarted(op) ==
    /\ op.op \in {"fetchQuery", "autoFetch", "intervalFetch", "prefetchQuery", "invalidateQuery"}
    /\ op.settled = "none"
\* The handlers that continue or end a fetchQuery call.
FetchContinued(op) == op.op \in {"retryWait", "retry", "fetchSuccess", "fetchError"}

\* C11: on a key that has a state before and after the step, a top-level
\* fetch call raises a numeric fetchCount by exactly one, and a retry attempt or the
\* completion of a fetch (success or failure, also of an overlapping call)
\* leaves it as it is: the count is the number of top-level calls and
\* never decreases.
C11_FetchCountCounts ==
    [][\A k \in DOMAIN queryStates \cap DOMAIN queryStates' :
          /\ (FetchStarted(lastOp') /\ lastOp'.key = k /\ queryStates[k].fetchCount >= 0) =>
                queryStates'[k].fetchCount = queryStates[k].fetchCount + 1
          /\ (FetchContinued(lastOp') /\ lastOp'.key = k) =>
                queryStates'[k].fetchCount = queryStates[k].fetchCount]_vars

\* C12: a key whose state has isFetching true has a fetchQuery call in
\* flight (waiting for its producer or for a retry delay).
C12_FetchingMeansInFlight ==
    \A k \in DOMAIN queryStates :
        queryStates[k].isFetching => \E id \in DOMAIN fetches : fetches[id].key = k
C12_Witness ==
    /\ "a" \in DOMAIN queryStates
    /\ queryStates["a"].isFetching
    /\ queryStates["a"].isError
    /\ DOMAIN fetches = {2}

\* C13: a key never has more than one active interval timer, and none
\* after removeQueryData(key) or clear().
C13_OneTimerPerKey ==
    /\ \A k \in Keys : activeTimers[k] <= 1
    /\ lastOp.op = "removeQueryData" => activeTimers[lastOp.key] = 0
    /\ lastOp.op = "clear" => \A k \in Keys : activeTimers[k] = 0

\* C14: a handler that writes a key's state and notifies delivers that
\* state once to every callback subscribed to the key, also when one of
\* them throws, and the throw does not reach the handler: the state is
\* written and the call neither throws nor rejects.
C14_ThrowIsContained ==
    (\E i \in DOMAIN lastOp.steps : lastOp.steps[i].ev = "notify") =>
        LET k == lastOp.key
            subs == IF k \in DOMAIN subscribers THEN subscribers[k] ELSE {}
        IN /\ {n.sub : n \in lastOp.notified} = subs
           /\ Cardinality(lastOp.notified) = Cardinality(subs)
           /\ k \in DOMAIN queryStates
           /\ \A n \in lastOp.notified : n.key = k /\ n.state = queryStates[k]
           /\ lastOp.settled \notin {"threw", "rejected"}
C14_Witness ==
    /\ lastOp.op = "fetchSuccess"
    /\ lastOp.settled = "resolved"
    /\ \E n \in lastOp.notified : n.threw
    /\ \E n \in lastOp.notified : ~n.threw /\ n.state.data = 1
    /\ queryStates["a"].status = "success"

\* C15: when a fetch ends, also with a lifecycle callback that throws,
\* the key is in its terminal state, every subscriber of the key was
\* notified, and the promise of the fetch is resolved, not rejected.
C15_CallbackThrowIsCaught ==
    lastOp.op \in {"fetchSuccess", "fetchError"} =>
        LET k == lastOp.key
            subs == IF k \in DOMAIN subscribers THEN subscribers[k] ELSE {}
        IN /\ k \in DOMAIN queryStates
           /\ queryStates[k].status = (IF lastOp.success THEN "success" ELSE "error")
           /\ ~queryStates[k].isFetching
           /\ {n.sub : n \in lastOp.notified} = subs
           /\ lastOp.settled = "resolved"

\* C16: fetch, cancel and invalidate on a key that has no config return or
\* resolve without error, leave the cache, the states, the subscriber sets
\* and the timers as they were, and notify nobody.
C16_UnknownKeyNoOp ==
    [][(/\ lastOp'.op \in {"fetchQuery", "cancelQuery", "invalidateQuery"}
        /\ lastOp'.key \notin DOMAIN queryConfigs) =>
           /\ lastOp'.settled \in {"resolved", "returned"}
           /\ lastOp'.notified = {}
           /\ UNCHANGED <<cache, queryStates, subscribers, intervals, activeTimers>>]_vars

\* C17: at most one producer call per key is in flight at any moment.
C17_Deduplicated ==
    \A k \in Keys :
        Cardinality({id \in DOMAIN fetches : fetches[id].key = k /\ fetches[id].pc = "producer"}) <= 1

\* C18: subscribeToQuery calls the callback exactly once, inside the
\* call, with the key's current state (the idle default for a key without
\* state); every delivery made by another handler goes to a callback that
\* was subscribed, and so had that first call, before the handler ran.
C18_SubscribeDeliversFirst ==
    [][/\ lastOp'.op = "subscribe" =>
            /\ Cardinality(lastOp'.notified) = 1
            /\ \A n \in lastOp'.notified :
                  /\ n.key = lastOp'.key
                  /\ n.state = getQueryState(lastOp'.key)
                  /\ n.sub \in subscribers'[lastOp'.key]
            /\ queryStates' = queryStates
       /\ lastOp'.op # "subscribe" =>
            \A n \in lastOp'.notified :
                n.key \in DOMAIN subscribers /\ n.sub \in subscribers[n.key]]_vars
C18_Witness ==
    /\ lastOp.op = "subscribe"
    /\ lastOp.settled = "returned"
    /\ \E n \in lastOp.notified :
          n.sub = "s1" /\ n.state.status = "success" /\ n.state.data = 1
    /\ subscribers["a"] = {"s1", "s2"}
C18_WitnessUnknownKey ==
    /\ lastOp.op = "subscribe"
    /\ lastOp.key \notin DOMAIN queryStates
    /\ \E n \in lastOp.notified : n.state = IdleDefault

\* C19: a fetch that starts on a key whose state holds data (any value but
\* undefined) sets isFetching while status is success, isLoading false and
\* the data kept; a fetch that starts on a key without data enters loading.
C19_StaleWhileRevalidate ==
    [][(FetchStarted(lastOp') /\ lastOp'.key \in DOMAIN queryStates) =>
          LET k == lastOp'.key
              before == queryStates[k]
              after == queryStates'[k]
          IN /\ after.isFetching
             /\ after.data = before.data
             /\ IF before.data # Undefined
                THEN after.status = "success" /\ ~after.isLoading
                ELSE after.status = "loading" /\ after.isLoading]_vars

\* C20: setQueryData(key, D) calls no producer, makes getQueryData(key)
\* return D, writes the success state of D, delivers that state to every
\* subscriber of the key, and returns D.
C20_SetQueryData ==
    [][lastOp'.op = "setQueryData" =>
          LET k == lastOp'.key
              D == lastOp'.value
              subs == IF k \in DOMAIN subscribers THEN subscribers[k] ELSE {}
          IN /\ D \in Data
             /\ lastOp'.settled = "returned"
             /\ k \in DOMAIN cache' /\ cache'[k] = D
             /\ k \in DOMAIN queryStates'
             /\ queryStates'[k] = QState(D, Null, "success", FALSE, FALSE, TRUE, FALSE, Undefined)
             /\ {n.sub : n \in lastOp'.notified} = subs
             /\ \A n \in lastOp'.notified : n.key = k /\ n.state = queryStates'[k]
             /\ subscribers' = subscribers
             /\ DOMAIN fetches' = DOMAIN fetches
             /\ \A id \in DOMAIN fetches :
                   fetches'[id].invoked = fetches[id].invoked /\ fetches'[id].pc = fetches[id].pc
             /\ nextId' = nextId
             /\ \A i \in DOMAIN lastOp'.steps : lastOp'.steps[i].ev # "queryFn"]_vars
C20_Witness ==
    /\ lastOp.op = "setQueryData"
    /\ lastOp.value = 0
    /\ getQueryData("a") = 0
    /\ queryStates["a"].isSuccess
    /\ \E n \in lastOp.notified : n.sub = "s1" /\ n.state.data = 0
    /\ DOMAIN fetches # {}

\* invalidateQuery(key) on a key that has a config and a state
InvalidatedRegistered(op) == op.op = "invalidateQuery" /\ op.settled = "none"

C22_SuccessOrder ==
    (/\ lastOp.op = "fetchSuccess"
     /\ lastOp.options.onSuccess = "ok" /\ lastOp.options.onSettled = "ok") =>
        LET d == lastOp.produced IN
        /\ lastOp.steps = <<Ev("cache", d, Undefined), Ev("state", Undefined, Undefined),
                            Ev("notify", Undefined, Undefined),
                            Ev("onSuccess", d, Undefined), Ev("onSettled", d, Null)>>
        /\ getQueryData(lastOp.key) = d
        /\ queryStates[lastOp.key] = SuccessState(d)
        /\ \A n \in lastOp.notified : n.state = SuccessState(d)
        /\ {n.sub : n \in lastOp.notified} =
              (IF lastOp.key \in DOMAIN subscribers THEN subscribers[lastOp.key] ELSE {})
C22_Witness ==
    /\ lastOp.op = "fetchSuccess"
    /\ lastOp.options = AllCallbacks
    /\ Len(lastOp.steps) = 5
    /\ lastOp.steps[4] = Ev("onSuccess", 1, Undefined)
    /\ lastOp.notified # {}

\* C23: a fetch that ends in failure with onError and onSettled
\* configured, whatever the producer rejected with, writes the error
\* state, notifies the subscribers with it, calls onError(error), then
\* onSettled(undefined, error): these four steps, each once, in this order.
C23_FailureOrder ==
    (/\ lastOp.op = "fetchError"
     /\ lastOp.options.onError = "ok" /\ lastOp.options.onSettled = "ok") =>
        LET e == lastOp.produced IN
        /\ lastOp.steps = <<Ev("state", Undefined, Undefined), Ev("notify", Undefined, Undefined),
                            Ev("onError", e, Undefined), Ev("onSettled", Undefined, e)>>
        /\ queryStates[lastOp.key].status = "error"
        /\ \A n \in lastOp.notified : n.state = queryStates[lastOp.key]

\* the step's handler invoked the callback (or wrote, or called) name
HasEv(op, name) == \E i \in DOMAIN op.steps : op.steps[i].ev = name
\* the context the callbacks of this instance are to receive
ExpectedContext == IF mutOptions.onMutate = "ok" THEN Context ELSE Undefined

\* C24: in every mutate call, onMutate is invoked first and is over (its
\* throw caught, context undefined) before the loading state is written
\* and mutationFn first called; the terminal state is written before
\* onSuccess/onError is invoked; an invoked onSuccess/onError is over
\* before onSettled is invoked; the promise settles only after onSettled
\* is over; and the callbacks receive the context onMutate returned.
C24_MutateOrder ==
    [][lastOp'.op = "mutate" =>
         LET id == lastOp'.id
             st == lastOp'.steps
             was == IF id \in DOMAIN mutations THEN mutations[id].pc ELSE "start"
         IN /\ HasEv(lastOp', "onMutate") =>
                 /\ st = <<MEv("onMutate", Undefined, Undefined, Variables, Undefined)>>
                 /\ was = "start"
                 /\ mutationState' = mutationState
            /\ (HasEv(lastOp', "mutationFn") /\ lastOp'.invoked = 1) =>
                 /\ was = (IF mutOptions.onMutate = "none" THEN "start" ELSE "onMutate")
                 /\ st = <<MEv("setState", Undefined, Undefined, Variables, ExpectedContext),
                           MEv("mutationFn", Undefined, Undefined, Variables, ExpectedContext)>>
                 /\ mutationState'.status = "loading"
            /\ \A i \in DOMAIN st : st[i].ev \in {"onSuccess", "onError"} =>
                 /\ was = "mutationFn"
                 /\ i = 2 /\ st[1].ev = "setState"
                 /\ st[i].context = ExpectedContext /\ st[i].variables = Variables
                 /\ mutationState'.status = (IF st[i].ev = "onSuccess" THEN "success" ELSE "error")
                 /\ lastOp'.settled = "none"
            /\ \A i \in DOMAIN st : st[i].ev = "onSettled" =>
                 /\ st[i].context = ExpectedContext /\ st[i].variables = Variables
                 /\ \/ was \in {"onSuccess", "onError"} /\ Len(st) = 1
                    \/ was = "mutationFn" /\ i = 2 /\ st[1].ev = "setState"
                 /\ lastOp'.settled = "none"
            /\ (lastOp'.settled # "none" /\ mutOptions.onSettled # "none") =>
                 /\ was = "onSettled"
                 /\ st = <<>>]_vars
C24_Witness ==
    /\ lastOp.op = "mutate"
    /\ lastOp.settled = "resolved"
    /\ lastOp.value = 1
    /\ mutOptions = AllMutationCallbacks
    /\ lastOp.invoked = 2
    /\ mutationState.status = "success"
C24_WitnessOnMutateThrows ==
    /\ lastOp.op = "mutate"
    /\ mutOptions.onMutate = "throws"
    /\ HasEv(lastOp, "onError")
    /\ lastOp.steps[2].context = Undefined

C26_ResetDoesNotCancel ==
    [][/\ lastOp'.op = "reset" =>
             /\ mutationState' = MutationIdle
             /\ lastOp'.settled = "returned"
             /\ DOMAIN mutations' = DOMAIN mutations
             /\ \A id \in DOMAIN mutations :
                   /\ mutations'[id].pc = mutations[id].pc
                   /\ mutations'[id].invoked = mutations[id].invoked
                   /\ mutations'[id].attempt = mutations[id].attempt
       /\ (/\ lastOp'.op = "mutate"
           /\ lastOp'.id \in DOMAIN mutations
           /\ mutations[lastOp'.id].pc = "mutationFn"
           /\ HasEv(lastOp', "setState")) =>
             IF lastOp'.success
             THEN /\ mutationState'.status = "success" /\ mutationState'.isSuccess
                  /\ mutationState'.data = lastOp'.produced
                  /\ mutOptions.onSuccess # "none" => HasEv(lastOp', "onSuccess")
                  /\ (mutOptions.onSuccess = "none" /\ mutOptions.onSettled # "none")
                        => HasEv(lastOp', "onSettled")
             ELSE /\ mutationState'.status = "error" /\ mutationState'.isError
                  /\ mutationState'.error = lastOp'.produced
                  /\ (mutOptions.onError # "none" /\ Truthy(lastOp'.produced))
                        => HasEv(lastOp', "onError")]_vars
C26_Witness ==
    /\ lastOp.op = "mutate"
    /\ lastOp.success
    /\ ~lastOp.quiet
    /\ nextMut = 2
    /\ mutationState.status = "success"
    /\ mutationState.isIdle
    /\ mutationState.data = 1
    /\ HasEv(lastOp, "onSuccess")

\* C30: in every state of a mutation instance exactly one of isIdle,
\* isLoading, isSuccess and isError is true, the one that matches status.
C30_OneMutationFlag ==
    /\ mutationState.isIdle <=> mutationState.status = "idle"
    /\ mutationState.isLoading <=> mutationState.status = "loading"
    /\ mutationState.isSuccess <=> mutationState.status = "success"
    /\ mutationState.isError <=> mutationState.status = "error"

\* C27: cancelQuery(key) on a state with isFetching true sets that flag
\* false, leaving every other field, and notifies each subscriber once; on
\* any other key it changes nothing and notifies nobody; it never touches
\* the cache or a call in flight, and a call that ends afterwards still
\* writes its terminal state.
C27_CancelOnlyFlipsFlag ==
    [][/\ lastOp'.op = "cancelQuery" =>
             LET k == lastOp'.key IN
             /\ UNCHANGED <<cache, fetches, queryConfigs, subscribers, activeTimers>>
             /\ lastOp'.settled = "returned"
             /\ IF k \in DOMAIN queryStates /\ queryStates[k].isFetching
                THEN /\ queryStates' = [queryStates EXCEPT ![k].isFetching = FALSE]
                     /\ {n.sub : n \in lastOp'.notified} =
                           (IF k \in DOMAIN subscribers THEN subscribers[k] ELSE {})
                     /\ Cardinality(lastOp'.notified) =
                           Cardinality(IF k \in DOMAIN subscribers THEN subscribers[k] ELSE {})
                     /\ \A n \in lastOp'.notified :
                           n.state = [queryStates[k] EXCEPT !.isFetching = FALSE]
                ELSE /\ queryStates' = queryStates
                     /\ lastOp'.notified = {}
       /\ lastOp'.op \in {"fetchSuccess", "fetchError"} =>
             /\ lastOp'.key \in DOMAIN queryStates'
             /\ queryStates'[lastOp'.key].status =
                   (IF lastOp'.op = "fetchSuccess" THEN "success" ELSE "error")
             /\ ~queryStates'[lastOp'.key].isFetching]_vars
C27_Witness ==
    /\ lastOp.op = "cancelQuery"
    /\ lastOp.notified # {}
    /\ ~queryStates["a"].isFetching
    /\ queryStates["a"].status = "loading"
    /\ \E id \in DOMAIN fetches : fetches[id].pc = "delay"

\* the number of times the retry loop runs for a retry option
C28_LoopRuns(retry) == IF C2_Budget(retry) < 0 THEN 0 ELSE C2_Budget(retry)

\* C28 as stated: every fetch in flight eventually writes a terminal state,
\* having invoked the producer at most (retry budget + 1) times, the budget
\* being the retry option itself when it is a number, negative or not.
C28_BudgetPlusOne ==
    /\ [][lastOp'.op \in {"fetchSuccess", "fetchError"} =>
             /\ lastOp'.key \in DOMAIN queryStates'
             /\ ~queryStates'[lastOp'.key].isFetching
             /\ queryStates'[lastOp'.key].status \in {"success", "error"}
             /\ lastOp'.invoked <= C2_Budget(lastOp'.options.retry) + 1]_vars
    /\ \A id \in 1..MaxFetches :
          (id \in DOMAIN fetches) ~>
             (lastOp.op \in {"fetchSuccess", "fetchError"} /\ lastOp.id = id)

\* C28: every fetch in flight eventually writes a terminal state
\* (isFetching false, status success or error), having invoked the producer
\* at least once and at most (number of retry-loop runs + 1) times: the
\* retry option + 1 for a non-negative number, 1 for false and for a
\* negative number.
C28_FetchTerminates ==
    /\ [][lastOp'.op \in {"fetchSuccess", "fetchError"} =>
             /\ lastOp'.key \in DOMAIN queryStates'
             /\ ~queryStates'[lastOp'.key].isFetching
             /\ queryStates'[lastOp'.key].status \in {"success", "error"}
             /\ lastOp'.invoked >= 1
             /\ lastOp'.invoked <= C28_LoopRuns(lastOp'.options.retry) + 1]_vars
    /\ \A id \in 1..MaxFetches :
          (id \in DOMAIN fetches) ~>
             (lastOp.op \in {"fetchSuccess", "fetchError"} /\ lastOp.id = id)
C28_Witness ==
    /\ lastOp.op = "fetchError"
    /\ lastOp.options.retry = NumRetry(-1)
    /\ lastOp.invoked = 1
    /\ queryStates["a"].status = "error"
    /\ ~queryStates["a"].isFetching
C28_WitnessRetried ==
    /\ lastOp.op = "fetchSuccess"
    /\ lastOp.options.retry = NumRetry(1)
    /\ lastOp.invoked = 2

\* C29: a fetch that ends in failure leaves the data field of the key's
\* state as it was immediately before the error write; when the data was
\* updated while the fetch was in flight, state data and cache data agree
\* after the error write.
C29_ErrorKeepsData ==
    [][(/\ lastOp'.op = "fetchError"
        /\ lastOp'.key \in DOMAIN queryStates
        /\ lastOp'.key \in DOMAIN queryStates'
        /\ lastOp'.id \in DOMAIN fetches) =>
          LET k == lastOp'.key IN
          /\ queryStates'[k].data = queryStates[k].data
          /\ (fetches[lastOp'.id].newState.data # queryStates[k].data /\ k \in DOMAIN cache') =>
                queryStates'[k].data = cache'[k]]_vars

====
